---- MODULE Spec2Model ----
(***************************************************************************)
(* State-machine model of the JusLearn backend (src/backend/index.js):     *)
(* an express server over one SQLite connection.  The state is the three   *)
(* tables, their AUTOINCREMENT counters, the uploads directory, and the    *)
(* requests in flight.  A request runs as the code runs it: a synchronous  *)
(* part, then one step per asynchronous continuation (the bcrypt promise,  *)
(* the sqlite3 callback, the fs.unlink callback); requests interleave at   *)
(* those points, as they do on node's event loop.                          *)
(***************************************************************************)
EXTENDS Naturals, Sequences, FiniteSets

VARIABLES server, users, userSeq, topics, assignments, assignSeq,
          files, clock, reqs, nreq, last, uploaded

vars == <<server, users, userSeq, topics, assignments, assignSeq,
          files, clock, reqs, nreq, last, uploaded>>

(* ---------------------------- bounds ----------------------------------- *)
MaxRequests == 2      \* requests accepted over a run
MaxInFlight == 2      \* requests being handled at the same time
MaxClock == 2         \* distinct values Date.now() takes over a run

Slots == 1..MaxInFlight

(* ------------------------ JSON body values ----------------------------- *)
JStr(s) == [type |-> "string", val |-> s]
JNum == [type |-> "number", val |-> "123"]
JUndef == [type |-> "undefined", val |-> ""]

\* JavaScript's !v for the values above.
Falsy(v) == v.type = "undefined" \/ (v.type = "string" /\ v.val = "")

\* The bodies POSTed to /api/signup: two users, a second username and
\* password on a taken email, a password that is a number, a missing field.
Body(username, email, password) ==
  [username |-> username, email |-> email, password |-> password]

SignupBodies ==
  { Body(JStr("alice"), JStr("a@x.com"), JStr("pw1")),
    Body(JStr("bob"),   JStr("a@x.com"), JStr("pw2")),
    Body(JStr("bob"),   JStr("b@x.com"), JStr("pw1")),
    Body(JStr("alice"), JStr("a@x.com"), JNum),
    Body(JStr("bob"),   JStr("b@x.com"), JUndef) }

\* The bodies POSTed to /api/login: username is not read.
LoginBodies ==
  { Body(JUndef, JStr("a@x.com"), JStr("pw1")),
    Body(JUndef, JStr("a@x.com"), JStr("pw2")),
    Body(JUndef, JStr("b@x.com"), JStr("pw1")),
    Body(JUndef, JStr("a@x.com"), JUndef) }
UserIdParams == {1, 2}
TopicIdParams == {1, 15}
NoFile == ""
OriginalNames == {"hw.pdf"}

(* ----------------------------- bcrypt ---------------------------------- *)
\* bcrypt.hash / bcrypt.compare reject unless the data is a string.
HashThrows(password) == password.type # "string"

SaltRounds == 10

\* bcrypt.hash(password, 10): a one-way digest; the salt is not observable
\* through any route and is left out.
Hash(password) == [rounds |-> SaltRounds, digest |-> password.val]

\* bcrypt.compare(password, hash)
Compare(password, hash) == hash.digest = password.val

(* ------------------------------ store ---------------------------------- *)
topicsToInsert ==
  << [id |-> 1,  module_name |-> "Operating Systems", topic_name |-> "Process Scheduling"],
     [id |-> 2,  module_name |-> "Operating Systems", topic_name |-> "Inter-process Communication"],
     [id |-> 3,  module_name |-> "Operating Systems", topic_name |-> "Paging & Segmentation"],
     [id |-> 4,  module_name |-> "Operating Systems", topic_name |-> "Virtual Memory"],
     [id |-> 5,  module_name |-> "Operating Systems", topic_name |-> "File Allocation"],
     [id |-> 6,  module_name |-> "Operating Systems", topic_name |-> "Directory Structures"],
     [id |-> 7,  module_name |-> "DBMS", topic_name |-> "ER Diagrams"],
     [id |-> 8,  module_name |-> "DBMS", topic_name |-> "Normalization"],
     [id |-> 9,  module_name |-> "DBMS", topic_name |-> "Select Queries"],
     [id |-> 10, module_name |-> "DBMS", topic_name |-> "Joins & Subqueries"],
     [id |-> 11, module_name |-> "Computer Networks", topic_name |-> "OSI Model"],
     [id |-> 12, module_name |-> "Computer Networks", topic_name |-> "TCP/IP Model"],
     [id |-> 13, module_name |-> "Computer Networks", topic_name |-> "IP Addressing"],
     [id |-> 14, module_name |-> "Computer Networks", topic_name |-> "Routing"] >>

NoUser == [id |-> 0, username |-> "", email |-> "", password |-> Hash(JUndef)]

\* The seeding callback: topicsToInsert.forEach(insertStmt.run), onto the
\* rows the table holds.
SeedTopics_SkipsLast(ts, seed) == ts \o SubSeq(seed, 1, Len(seed) - 1)

SeedTopics(ts, seed) == ts \o seed

\* A users table whose email column lacks UNIQUE.
UniqueViolation_NoConstraint(us, email) == FALSE

\* users.email is UNIQUE: an INSERT with an email some row already has fails.
UniqueViolation(us, email) == \E i \in 1..Len(us) : us[i].email = email

\* INSERT INTO users(username, email, password) VALUES(?,?,?)
InsertUser(us, id, username, email, hashedPassword) ==
  Append(us, [id |-> id, username |-> username, email |-> email,
              password |-> hashedPassword])

\* SELECT * FROM users WHERE email = ?   (db.get: the first row, or none).
\* An undefined parameter binds as NULL, which equals no stored email.
SelectUserByEmail(us, email) ==
  IF email.type = "string" /\ \E i \in 1..Len(us) : us[i].email = email.val
  THEN us[CHOOSE i \in 1..Len(us) : us[i].email = email.val]
  ELSE NoUser

\* REPLACE INTO assignments(user_id, topic_id, file_path, completed)
\* VALUES(?,?,?,1).  REPLACE deletes the rows that collide on a UNIQUE or
\* PRIMARY KEY constraint; the table's only such constraint is on id, which
\* the statement leaves to AUTOINCREMENT, so no row ever collides and the
\* statement appends.  marks takes its DEFAULT 0.
ReplaceIntoAssignments(rows, id, userId, topicId, filePath) ==
  Append(rows, [id |-> id, user_id |-> userId, topic_id |-> topicId,
                file_path |-> filePath, marks |-> 0, completed |-> 1])

\* A join on the topic alone.
OnClause_AnyUser(t, a, userId) == a.topic_id = t.id

\* ON t.id = a.topic_id AND a.user_id = ?
OnClause(t, a, userId) == a.topic_id = t.id /\ a.user_id = userId

\* The rows of a LEFT JOIN that one topic contributes: one per assignment
\* the ON clause matches, in the table's order, or a single NULL-extended
\* row, whose completed and marks IFNULL turns into 0.
TopicRows(t, rows, userId) ==
  LET matching == SelectSeq(rows, LAMBDA a : OnClause(t, a, userId))
  IN IF matching = << >>
     THEN << [topicId |-> t.id, module_name |-> t.module_name,
              topic_name |-> t.topic_name, completed |-> 0, marks |-> 0] >>
     ELSE [i \in 1..Len(matching) |->
             [topicId |-> t.id, module_name |-> t.module_name,
              topic_name |-> t.topic_name,
              completed |-> matching[i].completed,
              marks |-> matching[i].marks]]

\* SELECT t.id AS topicId, t.module_name, t.topic_name,
\*        IFNULL(a.completed,0) AS completed, IFNULL(a.marks,0) AS marks
\* FROM topics t LEFT JOIN assignments a ON ...: the topics in the table's
\* order, each with its rows.
Progress(ts, rows, userId) ==
  LET upTo[k \in 0..Len(ts)] ==
        IF k = 0 THEN << >>
        ELSE upTo[k - 1] \o TopicRows(ts[k], rows, userId)
  IN upTo[Len(ts)]

(* ---------------------------- uploads ---------------------------------- *)
\* multer's filename callback: Date.now() + '-' + file.originalname
FileName(now, originalname) == <<now, originalname>>

\* A cleanup that removes nothing.
Unlink_Never(fs, filePath, ok) == fs

\* fs.unlink(filePath, () => {}): the file goes unless the unlink fails,
\* and the empty callback drops the error.
Unlink(fs, filePath, ok) == IF ok THEN fs \ {filePath} ELSE fs

(* --------------------------- responses --------------------------------- *)
NoResp == [status |-> 0, message |-> "", userId |-> 0, username |-> "",
           assignmentId |-> 0, rows |-> << >>]
Json(status, message) == [NoResp EXCEPT !.status = status, !.message = message]

invalidMessage == "Invalid credentials"
MissingFields == Json(400, "Missing required fields")
Conflict == Json(409, "Email or username already in use.")
HashingError == Json(500, "Internal server error during hashing.")
InvalidCredentials == Json(401, invalidMessage)
NoFileUploaded == Json(400, "No file uploaded.")
\* res.status(500).json({ message: err.message })
StoreError == Json(500, "SQLITE_ERROR")

\* A lookup that tells the caller the email is unknown.
NoSuchUser_Reveals == Json(404, "User not found")

\* The response to a db.get that found no user for the email.
NoSuchUser == InvalidCredentials
\* The response to a bcrypt.compare that found no match.
WrongPassword == InvalidCredentials

(* --------------------------- requests ---------------------------------- *)
\* A request in flight.  pc is the continuation the request waits for; resp and nresp are the response sent
\* and how many were sent; cause records which failure (if any) the handler
\* met; emailTaken whether the email was a stored one when the request came;
\* unlinked whether the cleanup removed the file.
Idle == [op |-> "none", pc |-> "idle", emailTaken |-> FALSE,
         username |-> JUndef, email |-> JUndef,
         password |-> JUndef, hashed |-> Hash(JUndef), user |-> NoUser,
         userId |-> 0, topicId |-> 0, file |-> NoFile, filePath |-> <<0, "">>,
         resp |-> NoResp, nresp |-> 0, cause |-> "none", unlinked |-> FALSE]

\* Some row of us has this email.
EmailStored(us, email) == \E i \in 1..Len(us) : us[i].email = email

Free(s) == reqs[s].pc = "idle"

\* A connection is accepted while the server listens.
Accept(s) == /\ server = "listening"
             /\ Free(s)
             /\ \A z \in Slots : z < s => ~Free(z)
             /\ nreq < MaxRequests
             /\ nreq' = nreq + 1

\* A continuation runs only while the process lives.
Resumes(s, op, pc) == /\ server = "listening"
                      /\ reqs[s].op = op
                      /\ reqs[s].pc = pc

Await(s, r, pc) == /\ reqs' = [reqs EXCEPT ![s] = [r EXCEPT !.pc = pc]]
                   /\ UNCHANGED last

Respond(r, resp) == [r EXCEPT !.resp = resp, !.nresp = r.nresp + 1]

\* The handler is over: the request leaves its slot.
Finish(s, r) == /\ reqs' = [reqs EXCEPT ![s] = Idle]
                /\ last' = [r EXCEPT !.pc = "done"]

Store == <<users, userSeq, topics, assignments, assignSeq>>

(* ------------------------------ startup -------------------------------- *)
\* What juslearn.db holds when the process starts: nothing, or the tables
\* of an earlier run.
StaleUsers == << [id |-> 7, username |-> "zed", email |-> "a@x.com",
                  password |-> Hash(JStr("old"))] >>
StaleTopics == << [id |-> 99, module_name |-> "Legacy", topic_name |-> "Old"] >>
StaleAssignments == << [id |-> 5, user_id |-> 1, topic_id |-> 1,
                        file_path |-> <<0, "old.pdf">>, marks |-> 9, completed |-> 1] >>

Init == /\ server = "starting"
        /\ \E stale \in BOOLEAN :
             /\ users = IF stale THEN StaleUsers ELSE << >>
             /\ topics = IF stale THEN StaleTopics ELSE << >>
             /\ assignments = IF stale THEN StaleAssignments ELSE << >>
             /\ userSeq = IF stale THEN 7 ELSE 0
             /\ assignSeq = IF stale THEN 5 ELSE 0
        /\ files = {}
        /\ clock = 1
        /\ reqs = [s \in Slots |-> Idle]
        /\ nreq = 0
        /\ last = Idle
        /\ uploaded = {}

\* db.serialize: drop the three tables (and with them the AUTOINCREMENT
\* counters), create them, DELETE FROM topics, insert the seed rows.
Startup == /\ server = "starting"
           /\ users' = << >>
           /\ userSeq' = 0
           /\ assignments' = << >>
           /\ assignSeq' = 0
           /\ topics' = SeedTopics(<< >>, topicsToInsert)
           /\ server' = "listening"
           /\ UNCHANGED <<files, clock, reqs, nreq, last, uploaded>>


(* ------------------------- POST /api/signup ---------------------------- *)
SignupStart(s) ==
  /\ Accept(s)
  /\ \E body \in SignupBodies :
       LET r == [Idle EXCEPT !.op = "signup",
                             !.username = body.username, !.email = body.email,
                             !.password = body.password,
                             !.emailTaken = EmailStored(users, body.email.val)]
       IN IF Falsy(body.username) \/ Falsy(body.email) \/ Falsy(body.password)
          THEN Finish(s, Respond(r, MissingFields))
          ELSE Await(s, r, "hashing")
  /\ UNCHANGED <<server, Store, files, clock, uploaded>>

\* await bcrypt.hash(password, 10) settles; a rejection lands in the catch.
SignupHashed(s) ==
  /\ Resumes(s, "signup", "hashing")
  /\ LET r == reqs[s]
     IN IF HashThrows(r.password)
        THEN Finish(s, Respond([r EXCEPT !.cause = "hash"], HashingError))
        ELSE Await(s, [r EXCEPT !.hashed = Hash(r.password)], "insert")
  /\ UNCHANGED <<server, Store, files, clock, nreq, uploaded>>

\* The callback of the INSERT: any err answers 409.  The store can fail for
\* reasons of its own (storeFails) as well as on the UNIQUE constraint.
SignupInsert(s) ==
  /\ Resumes(s, "signup", "insert")
  /\ \E storeFails \in BOOLEAN :
       LET r == reqs[s]
       IN IF storeFails
          THEN /\ Finish(s, Respond([r EXCEPT !.cause = "store"], Conflict))
               /\ UNCHANGED <<users, userSeq>>
          ELSE IF UniqueViolation(users, r.email.val)
          THEN /\ Finish(s, Respond([r EXCEPT !.cause = "unique"], Conflict))
               /\ UNCHANGED <<users, userSeq>>
          ELSE /\ users' = InsertUser(users, userSeq + 1, r.username.val,
                                      r.email.val, r.hashed)
               /\ userSeq' = userSeq + 1
               /\ Finish(s, Respond(r, [Json(200, "User registered successfully")
                                          EXCEPT !.userId = userSeq + 1]))
  /\ UNCHANGED <<server, topics, assignments, assignSeq, files, clock, nreq, uploaded>>

(* -------------------------- POST /api/login ---------------------------- *)
LoginStart(s) ==
  /\ Accept(s)
  /\ \E body \in LoginBodies :
       Await(s, [Idle EXCEPT !.op = "login", !.email = body.email,
                             !.password = body.password,
                             !.emailTaken = EmailStored(users, body.email.val)],
             "lookup")
  /\ UNCHANGED <<server, Store, files, clock, uploaded>>

\* The callback of db.get.
LoginLookup(s) ==
  /\ Resumes(s, "login", "lookup")
  /\ \E storeFails \in BOOLEAN :
       LET r == reqs[s]
           user == SelectUserByEmail(users, r.email)
       IN IF storeFails
          THEN Finish(s, Respond([r EXCEPT !.cause = "store"], StoreError))
          ELSE IF user = NoUser
          THEN Finish(s, Respond(r, NoSuchUser))
          ELSE Await(s, [r EXCEPT !.user = user], "comparing")
  /\ UNCHANGED <<server, Store, files, clock, nreq, uploaded>>

\* await bcrypt.compare(password, user.password) settles inside the async
\* callback.  Nothing catches a rejection there: no response is sent, and the
\* unhandled rejection ends the process or is only reported, as node's
\* --unhandled-rejections mode has it.
LoginCompared(s) ==
  /\ Resumes(s, "login", "comparing")
  /\ LET r == reqs[s]
     IN IF HashThrows(r.password)
        THEN /\ Finish(s, [r EXCEPT !.cause = "compare"])
             /\ \E exits \in BOOLEAN :
                  server' = IF exits THEN "crashed" ELSE server
        ELSE /\ IF ~Compare(r.password, r.user.password)
                THEN Finish(s, Respond(r, WrongPassword))
                ELSE Finish(s, Respond(r, [Json(200, "Login successful")
                                             EXCEPT !.userId = r.user.id,
                                                    !.username = r.user.username]))
             /\ UNCHANGED server
  /\ UNCHANGED <<Store, files, clock, nreq, uploaded>>

(* -------------------------- GET /api/modules --------------------------- *)
ModulesStart(s) ==
  /\ Accept(s)
  /\ Await(s, [Idle EXCEPT !.op = "modules"], "query")
  /\ UNCHANGED <<server, Store, files, clock, uploaded>>

ModulesQuery(s) ==
  /\ Resumes(s, "modules", "query")
  /\ \E storeFails \in BOOLEAN :
       LET r == reqs[s]
       IN IF storeFails
          THEN Finish(s, Respond([r EXCEPT !.cause = "store"], StoreError))
          ELSE Finish(s, Respond(r, [Json(200, "") EXCEPT !.rows = topics]))
  /\ UNCHANGED <<server, Store, files, clock, nreq, uploaded>>

(* ----------------- POST /api/upload/:userId/:topicId ------------------- *)
\* A handler without the check for a file.
FileMissing_Never(file) == FALSE

\* if (!req.file)
FileMissing(file) == file = NoFile

\* upload.single('assignment'): a file that came with the request is written
\* under uploads/ before the handler runs.
SaveFile(fs, now, file) ==
  IF file = NoFile THEN fs ELSE fs \cup {FileName(now, file)}

\* clock is the last value Date.now() gave; the next is no earlier.
UploadStart(s) ==
  /\ Accept(s)
  /\ clock' \in clock..MaxClock
  /\ \E userId \in UserIdParams, topicId \in TopicIdParams,
        file \in OriginalNames \cup {NoFile} :
       LET r == [Idle EXCEPT !.op = "upload",
                             !.userId = userId, !.topicId = topicId,
                             !.file = file]
       IN /\ files' = SaveFile(files, clock', file)
          /\ IF FileMissing(file)
             THEN Finish(s, Respond(r, NoFileUploaded))
             ELSE Await(s, [r EXCEPT !.filePath = FileName(clock', file)], "write")
  /\ UNCHANGED <<server, Store, uploaded>>

\* The callback of the REPLACE INTO.  On err the unlink is started and the
\* 500 is sent at once; the unlink completes later.
UploadWrite(s) ==
  /\ Resumes(s, "upload", "write")
  /\ \E storeFails \in BOOLEAN :
       LET r == reqs[s]
       IN IF storeFails
          THEN /\ Await(s, Respond([r EXCEPT !.cause = "store"], StoreError),
                        "unlinking")
               /\ UNCHANGED <<assignments, assignSeq, uploaded>>
          ELSE /\ assignments' = ReplaceIntoAssignments(assignments, assignSeq + 1,
                                    r.userId, r.topicId, r.filePath)
               /\ assignSeq' = assignSeq + 1
               /\ uploaded' = uploaded \cup {<<r.userId, r.topicId>>}
               /\ Finish(s, Respond(r, [Json(200, "Assignment uploaded successfully")
                                          EXCEPT !.assignmentId = assignSeq + 1]))
  /\ UNCHANGED <<server, users, userSeq, topics, files, clock, nreq>>

\* fs.unlink completes, with or without success.
UploadUnlinked(s) ==
  /\ Resumes(s, "upload", "unlinking")
  /\ \E ok \in BOOLEAN :
       /\ files' = Unlink(files, reqs[s].filePath, ok)
       /\ Finish(s, [reqs[s] EXCEPT !.unlinked = ok])
  /\ UNCHANGED <<server, Store, clock, nreq, uploaded>>

(* ---------------------- GET /api/progress/:userId ---------------------- *)
ProgressStart(s) ==
  /\ Accept(s)
  /\ \E userId \in UserIdParams :
       Await(s, [Idle EXCEPT !.op = "progress", !.userId = userId], "query")
  /\ UNCHANGED <<server, Store, files, clock, uploaded>>

ProgressQuery(s) ==
  /\ Resumes(s, "progress", "query")
  /\ \E storeFails \in BOOLEAN :
       LET r == reqs[s]
       IN IF storeFails
          THEN Finish(s, Respond([r EXCEPT !.cause = "store"], StoreError))
          ELSE Finish(s, Respond(r, [Json(200, "") EXCEPT
                           !.rows = Progress(topics, assignments, r.userId)]))
  /\ UNCHANGED <<server, Store, files, clock, nreq, uploaded>>

Next == \/ Startup
        \/ \E s \in Slots : SignupStart(s)
        \/ \E s \in Slots : SignupHashed(s)
        \/ \E s \in Slots : SignupInsert(s)
        \/ \E s \in Slots : LoginStart(s)
        \/ \E s \in Slots : LoginLookup(s)
        \/ \E s \in Slots : LoginCompared(s)
        \/ \E s \in Slots : ModulesStart(s)
        \/ \E s \in Slots : ModulesQuery(s)
        \/ \E s \in Slots : UploadStart(s)
        \/ \E s \in Slots : UploadWrite(s)
        \/ \E s \in Slots : UploadUnlinked(s)
        \/ \E s \in Slots : ProgressStart(s)
        \/ \E s \in Slots : ProgressQuery(s)

Spec == Init /\ [][Next]_vars

(* ======================= properties of the model ======================= *)
Seeded == server # "starting"

\* The request in slot s ends with this step; last' is then its record.
Completes(s) == reqs[s].pc # "idle" /\ reqs'[s].pc = "idle"

\* The request this step accepted (when nreq' = nreq + 1): it either waits in
\* the slot that changed or, answered at once, is last'.
NewReq == IF reqs' = reqs THEN last'
          ELSE reqs'[CHOOSE s \in Slots : reqs'[s] # reqs[s]]

NonEmptyString(v) == v.type = "string" /\ v.val # ""

\* C1: after any uploads since startup, the assignments table holds at most
\* one row for each (userId, topicId) pair.
C1_OneRowPerPair ==
  Seeded => \A i, j \in 1..Len(assignments) :
              (assignments[i].user_id = assignments[j].user_id
               /\ assignments[i].topic_id = assignments[j].topic_id) => i = j

\* C2: in every state after seeding, GetProgress(userId) returns each topic of
\* the catalog exactly once, 14 rows in total, for every userId.
C2_EachTopicOnce ==
  Seeded => \A u \in UserIdParams :
              \A p \in {Progress(topics, assignments, u)} :
                 /\ Len(p) = 14
                 /\ \A t \in 1..14 :
                      Cardinality({i \in 1..Len(p) : p[i].topicId = t}) = 1

\* C3: Register with a non-empty string username, email and password, where
\* the email was a stored user's when the request came, answers 409
\* ConflictError whatever the username; no step of such a request changes the
\* users table; no two user rows ever share an email.
C3_State ==
  /\ (/\ last.op = "signup"
      /\ last.emailTaken
      /\ NonEmptyString(last.username)
      /\ NonEmptyString(last.email)
      /\ NonEmptyString(last.password))
     => (last.resp = Conflict /\ last.resp.status = 409 /\ last.nresp = 1)
  /\ \A i, j \in 1..Len(users) : users[i].email = users[j].email => i = j

C3_DuplicateEmailConflict ==
  /\ C3_State
  /\ [][ /\ (<<last, users>>' # <<last, users>>) => C3_State'
         /\ \A s \in Slots :
              (reqs[s].op = "signup" /\ reqs[s].emailTaken /\ reqs'[s] # reqs[s])
              => users' = users ]_vars

C3_Witness ==
  /\ last.op = "signup"
  /\ last.emailTaken
  /\ NonEmptyString(last.password)
  /\ last.resp = Conflict
  /\ last.cause = "unique"
  /\ Len(users) = 1
  /\ users[1].email = last.email.val
  /\ users[1].username # last.username.val

C5_NoFileNoMutation ==
  [][ (nreq' = nreq + 1 /\ NewReq.op = "upload" /\ NewReq.file = NoFile)
      => /\ NewReq.pc = "done"
         /\ NewReq.resp = Json(400, "No file uploaded.")
         /\ NewReq.nresp = 1
         /\ UNCHANGED <<users, userSeq, topics, assignments, assignSeq, files>> ]_vars

C5_Witness ==
  /\ last.op = "upload"
  /\ last.file = NoFile
  /\ last.resp = Json(400, "No file uploaded.")
  /\ Len(assignments) = 1

\* C6: in Register a store or hashing failure that is not a uniqueness
\* violation is answered 500, and 409 is answered only when the email is a
\* stored one.
C6_ConflictOnlyOnDuplicate ==
  last.op = "signup" =>
    /\ last.cause = "hash" => last.resp.status = 500
    /\ last.resp.status = 409 => EmailStored(users, last.email.val)

\* C7: every request whose handler has ended got exactly one response, and
\* the server process is still running.
C7_EveryRequestAnswered ==
  /\ server # "crashed"
  /\ last.op # "none" => (last.nresp = 1 /\ last.resp.status # 0)

\* C8: after seeding the catalog is exactly the 14 seed entries (ids 1..14 in
\* the three modules), whatever requests were served, and a ListModules the
\* store answers returns those 14 rows.
C8_CatalogFixed ==
  Seeded =>
    /\ topics = topicsToInsert
    /\ Len(topics) = 14
    /\ \A i \in 1..Len(topics) : topics[i].id = i
    /\ {topics[i].module_name : i \in 1..Len(topics)}
         = {"Operating Systems", "DBMS", "Computer Networks"}
    /\ (last.op = "modules" /\ last.cause = "none")
         => (last.resp.status = 200 /\ last.resp.rows = topics)

C8_Witness ==
  /\ last.op = "modules"
  /\ last.resp.status = 200
  /\ Len(last.resp.rows) = 14
  /\ last.resp.rows[14].topic_name = "Routing"
  /\ Len(assignments) = 1

\* C9 as first stated: in Upload, when the store write fails after the file
\* was saved, the response is 500, no assignment row is added or changed, and
\* once the request is over the saved file is on disk only if its assignment
\* row was written.
C9_FileOnlyWithRow ==
  [][ \A s \in Slots :
        (reqs[s].op = "upload" /\ Completes(s) /\ last'.file # NoFile
         /\ last'.filePath \in files')
        => last'.resp.status = 200 ]_vars

\* C9 as amended: when the store write fails after the file was saved, the
\* response is 500, no assignment row is added or changed and the unlink is
\* started; the unlink's failure changes nothing of the response; once the
\* request is over the saved file is on disk only if its assignment row was
\* written or the unlink failed.
C9_BestEffortCleanup ==
  [][ \A s \in Slots :
        /\ (reqs[s].op = "upload" /\ reqs[s].pc = "write"
            /\ reqs'[s].cause = "store")
           => /\ reqs'[s].resp.status = 500
              /\ reqs'[s].nresp = 1
              /\ reqs'[s].pc = "unlinking"
              /\ assignments' = assignments
        /\ (reqs[s].op = "upload" /\ reqs[s].pc = "unlinking" /\ Completes(s))
           => /\ last'.resp = reqs[s].resp
              /\ last'.nresp = 1
              /\ assignments' = assignments
        /\ (reqs[s].op = "upload" /\ Completes(s) /\ last'.file # NoFile
            /\ last'.filePath \in files')
           => (last'.resp.status = 200 \/ ~last'.unlinked) ]_vars

C9_Witness ==
  /\ last.op = "upload"
  /\ last.cause = "store"
  /\ last.resp.status = 500
  /\ last.unlinked
  /\ last.filePath \notin files
  /\ assignments = << >>

\* C10: after startup GetProgress(u) reports completed=1 for topic t exactly
\* when an Upload(u, t, file) has succeeded, and marks=0 everywhere; a user
\* with no submission gets the 14 topics with completed=0, marks=0; an upload
\* by another user leaves the rows of GetProgress(u) as they were.
ProgressAgrees(p, u, done) ==
  \A q \in {p} :
    /\ \A i \in 1..Len(q) : q[i].marks = 0 /\ q[i].completed \in {0, 1}
    /\ \A t \in 1..14 :
         (\E i \in 1..Len(q) : q[i].topicId = t /\ q[i].completed = 1)
           <=> <<u, t>> \in done
    /\ \A t \in 1..14 : \E i \in 1..Len(q) : q[i].topicId = t
    /\ (\A t \in 1..14 : <<u, t>> \notin done)
         => /\ Len(q) = 14
            /\ \A i \in 1..14 : /\ q[i].topicId = i
                                /\ q[i].completed = 0
                                /\ q[i].marks = 0

C10_State ==
  Seeded => \A u \in UserIdParams :
              ProgressAgrees(Progress(topics, assignments, u), u, uploaded)

C10_ProgressMatchesUploads ==
  /\ C10_State
  /\ [][ /\ (<<server, topics, assignments, uploaded>>'
                # <<server, topics, assignments, uploaded>>) => C10_State'
         /\ \A s \in Slots :
              (reqs[s].op = "progress" /\ Completes(s) /\ last'.cause = "none")
              => /\ last'.resp.status = 200
                 /\ ProgressAgrees(last'.resp.rows, last'.userId, uploaded)
         /\ \A s \in Slots, u \in UserIdParams :
              (/\ reqs[s].op = "upload" /\ reqs[s].userId # u
               /\ reqs'[s] # reqs[s]
               /\ <<topics, assignments>>' # <<topics, assignments>>)
              => Progress(topics', assignments', u)
                   = Progress(topics, assignments, u) ]_vars

C10_Witness ==
  /\ last.op = "progress"
  /\ last.userId = 1
  /\ last.resp.status = 200
  /\ uploaded = {<<1, 1>>}
  /\ last.resp.rows[1].completed = 1
  /\ last.resp.rows[2].completed = 0
  /\ Progress(topics, assignments, 2)[1].completed = 0
====
